---- MODULE Spec2Model ----
(***************************************************************************)
(* Model of the payments engine: the ClientAccount ledger handlers of      *)
(* src/src/account.rs and the router PaymentsEngine::process_transaction   *)
(* of src/src/payments_engine.rs.                                          *)
(*                                                                         *)
(* Amounts are f64 in the source.  The model draws them from the integers  *)
(* 0..MaxAmount: on integer-valued f64 of this size + and - are exact, so  *)
(* the integer arithmetic below is the arithmetic of the code on these     *)
(* inputs.                                                                 *)
(***************************************************************************)
EXTENDS Integers, FiniteSets, Sequences, TLC

\* ------------------------------------------------------------------ bounds
MaxAmount == 2
MaxFunds == 3

Clients == {1, 2}
TxIds == {1, 2}
Amounts == 0..MaxAmount

\* ------------------------------------------------------------- data model
TransactionType == {"Deposit", "Withdrawal", "Dispute", "Resolve", "Chargeback"}

Transaction == [tx_type : TransactionType, client : Clients, tx : TxIds, amount : Amounts]

MkTx(k, c, t, a) == [tx_type |-> k, client |-> c, tx |-> t, amount |-> a]

\* #[derive(Default)] of ClientAccountDetails
DefaultClientAccountDetails ==
    [available_funds |-> 0, held_funds |-> 0, total_funds |-> 0, is_account_locked |-> FALSE]

\* #[derive(Default)] of ClientTransactionArchive; details is a map whose
\* domain is the set of keys inserted so far
DefaultClientTransactionArchive ==
    [history |-> {}, details |-> <<>>, disputes |-> {}]

\* ClientAccount::default()
DefaultClientAccount ==
    [account_details |-> DefaultClientAccountDetails,
     account_transaction_archive |-> DefaultClientTransactionArchive]

\* HashMap::insert(k, v): the value of an existing key is overwritten
MapInsert(m, k, v) == [x \in (DOMAIN m) \cup {k} |-> IF x = k THEN v ELSE m[x]]

\* HashMap::get(k).is_some()
MapHas(m, k) == k \in DOMAIN m

\* PaymentsEngine::default(): an empty client_account_lookup
EmptyLookup == <<>>

\* ---------------------------------------------------- ClientAccount ledger
Ok == "Ok"
NotEnoughAvailableFunds == "NotEnoughAvailableFunds"
TransactionDetailDoesNotExist == "TransactionDetailDoesNotExist"

Ret(a, r) == [acct |-> a, res |-> r]

\* handle_deposit that does not record a deposit of amount zero
handle_deposit_skips_zero(a, tx) ==
    IF tx.amount = 0
    THEN Ret(a, Ok)
    ELSE Ret([account_details |->
                [a.account_details EXCEPT
                    !.available_funds = @ + tx.amount,
                    !.total_funds = @ + tx.amount],
              account_transaction_archive |->
                [a.account_transaction_archive EXCEPT
                    !.details = MapInsert(@, tx.tx, <<tx.amount, tx.tx_type>>),
                    !.history = @ \cup {tx.tx}]],
             Ok)

\* handle_deposit that records the ID in history and leaves details alone
handle_deposit_no_details(a, tx) ==
    Ret([account_details |->
            [a.account_details EXCEPT
                !.available_funds = @ + tx.amount,
                !.total_funds = @ + tx.amount],
         account_transaction_archive |->
            [a.account_transaction_archive EXCEPT
                !.history = @ \cup {tx.tx}]],
        Ok)

\* handle_deposit that lifts the lock of the account
handle_deposit_unlocks(a, tx) ==
    Ret([account_details |->
            [a.account_details EXCEPT
                !.available_funds = @ + tx.amount,
                !.total_funds = @ + tx.amount,
                !.is_account_locked = FALSE],
         account_transaction_archive |->
            [a.account_transaction_archive EXCEPT
                !.details = MapInsert(@, tx.tx, <<tx.amount, tx.tx_type>>),
                !.history = @ \cup {tx.tx}]],
        Ok)

handle_deposit(a, tx) ==
    Ret([account_details |->
            [a.account_details EXCEPT
                !.available_funds = @ + tx.amount,
                !.total_funds = @ + tx.amount],
         account_transaction_archive |->
            [a.account_transaction_archive EXCEPT
                !.details = MapInsert(@, tx.tx, <<tx.amount, tx.tx_type>>),
                !.history = @ \cup {tx.tx}]],
        Ok)

\* handle_withdrawal that records the ID of a withdrawal it refuses
handle_withdrawal_records_failed(a, tx) ==
    IF a.account_details.available_funds >= tx.amount
    THEN Ret([account_details |->
                [a.account_details EXCEPT
                    !.available_funds = @ - tx.amount,
                    !.total_funds = @ - tx.amount],
              account_transaction_archive |->
                [a.account_transaction_archive EXCEPT
                    !.details = MapInsert(@, tx.tx, <<tx.amount, tx.tx_type>>),
                    !.history = @ \cup {tx.tx}]],
             Ok)
    ELSE Ret([a EXCEPT !.account_transaction_archive.history = @ \cup {tx.tx}],
             NotEnoughAvailableFunds)

\* handle_withdrawal comparing with > where the code compares with >=
handle_withdrawal_strict(a, tx) ==
    IF a.account_details.available_funds > tx.amount
    THEN Ret([account_details |->
                [a.account_details EXCEPT
                    !.available_funds = @ - tx.amount,
                    !.total_funds = @ - tx.amount],
              account_transaction_archive |->
                [a.account_transaction_archive EXCEPT
                    !.details = MapInsert(@, tx.tx, <<tx.amount, tx.tx_type>>),
                    !.history = @ \cup {tx.tx}]],
             Ok)
    ELSE Ret(a, NotEnoughAvailableFunds)

\* handle_withdrawal that refuses every withdrawal from a locked account
handle_withdrawal_locked_refused(a, tx) ==
    IF a.account_details.available_funds >= tx.amount
       /\ ~a.account_details.is_account_locked
    THEN Ret([account_details |->
                [a.account_details EXCEPT
                    !.available_funds = @ - tx.amount,
                    !.total_funds = @ - tx.amount],
              account_transaction_archive |->
                [a.account_transaction_archive EXCEPT
                    !.details = MapInsert(@, tx.tx, <<tx.amount, tx.tx_type>>),
                    !.history = @ \cup {tx.tx}]],
             Ok)
    ELSE Ret(a, NotEnoughAvailableFunds)

handle_withdrawal(a, tx) ==
    IF a.account_details.available_funds >= tx.amount
    THEN Ret([account_details |->
                [a.account_details EXCEPT
                    !.available_funds = @ - tx.amount,
                    !.total_funds = @ - tx.amount],
              account_transaction_archive |->
                [a.account_transaction_archive EXCEPT
                    !.details = MapInsert(@, tx.tx, <<tx.amount, tx.tx_type>>),
                    !.history = @ \cup {tx.tx}]],
             Ok)
    ELSE Ret(a, NotEnoughAvailableFunds)

\* handle_dispute moving the amount carried by the dispute instead of the
\* amount recorded for the disputed ID
handle_dispute_tx_amount(a, tx) ==
    LET disputed_tx == tx.tx
        arch == a.account_transaction_archive
    IN  IF disputed_tx \in arch.history /\ disputed_tx \notin arch.disputes
        THEN IF ~MapHas(arch.details, disputed_tx)
             THEN Ret(a, TransactionDetailDoesNotExist)
             ELSE Ret([account_details |->
                          [a.account_details EXCEPT
                              !.available_funds = @ - tx.amount,
                              !.held_funds = @ + tx.amount],
                       account_transaction_archive |->
                          [arch EXCEPT !.disputes = @ \cup {disputed_tx}]],
                      Ok)
        ELSE Ret(a, Ok)

\* handle_dispute without the test that the ID is not yet under dispute
handle_dispute_again(a, tx) ==
    LET disputed_tx == tx.tx
        arch == a.account_transaction_archive
    IN  IF disputed_tx \in arch.history
        THEN IF ~MapHas(arch.details, disputed_tx)
             THEN Ret(a, TransactionDetailDoesNotExist)
             ELSE LET disputed_tx_amount == arch.details[disputed_tx][1]
                  IN  Ret([account_details |->
                              [a.account_details EXCEPT
                                  !.available_funds = @ - disputed_tx_amount,
                                  !.held_funds = @ + disputed_tx_amount],
                           account_transaction_archive |->
                              [arch EXCEPT !.disputes = @ \cup {disputed_tx}]],
                          Ok)
        ELSE Ret(a, Ok)

\* handle_dispute returning an error where the code warns and returns Ok
handle_dispute_err(a, tx) ==
    LET disputed_tx == tx.tx
        arch == a.account_transaction_archive
    IN  IF disputed_tx \in arch.history /\ disputed_tx \notin arch.disputes
        THEN IF ~MapHas(arch.details, disputed_tx)
             THEN Ret(a, TransactionDetailDoesNotExist)
             ELSE LET disputed_tx_amount == arch.details[disputed_tx][1]
                  IN  Ret([account_details |->
                              [a.account_details EXCEPT
                                  !.available_funds = @ - disputed_tx_amount,
                                  !.held_funds = @ + disputed_tx_amount],
                           account_transaction_archive |->
                              [arch EXCEPT !.disputes = @ \cup {disputed_tx}]],
                          Ok)
        ELSE Ret(a, TransactionDetailDoesNotExist)

\* handle_dispute that takes disputes of deposits only
handle_dispute_deposits_only(a, tx) ==
    LET disputed_tx == tx.tx
        arch == a.account_transaction_archive
        has_tx_happened == disputed_tx \in arch.history
        is_tx_not_being_disputed == disputed_tx \notin arch.disputes
    IN  IF has_tx_happened /\ is_tx_not_being_disputed
        THEN IF ~MapHas(arch.details, disputed_tx)
             THEN Ret(a, TransactionDetailDoesNotExist)
             ELSE IF arch.details[disputed_tx][2] # "Deposit"
                  THEN Ret(a, Ok)
                  ELSE LET disputed_tx_amount == arch.details[disputed_tx][1]
                       IN  Ret([account_details |->
                                   [a.account_details EXCEPT
                                       !.available_funds = @ - disputed_tx_amount,
                                       !.held_funds = @ + disputed_tx_amount],
                                account_transaction_archive |->
                                   [arch EXCEPT !.disputes = @ \cup {disputed_tx}]],
                               Ok)
        ELSE Ret(a, Ok)

\* handle_dispute that writes the dispute over the detail record
handle_dispute_overwrites_details(a, tx) ==
    LET disputed_tx == tx.tx
        arch == a.account_transaction_archive
        has_tx_happened == disputed_tx \in arch.history
        is_tx_not_being_disputed == disputed_tx \notin arch.disputes
    IN  IF has_tx_happened /\ is_tx_not_being_disputed
        THEN IF ~MapHas(arch.details, disputed_tx)
             THEN Ret(a, TransactionDetailDoesNotExist)
             ELSE LET disputed_tx_amount == arch.details[disputed_tx][1]
                  IN  Ret([account_details |->
                              [a.account_details EXCEPT
                                  !.available_funds = @ - disputed_tx_amount,
                                  !.held_funds = @ + disputed_tx_amount],
                           account_transaction_archive |->
                              [arch EXCEPT
                                  !.disputes = @ \cup {disputed_tx},
                                  !.details = MapInsert(@, disputed_tx,
                                                  <<disputed_tx_amount, tx.tx_type>>)]],
                          Ok)
        ELSE Ret(a, Ok)

\* handle_dispute that marks the ID as disputed before it looks at history
handle_dispute_marks_first(a, tx) ==
    LET disputed_tx == tx.tx
        arch == a.account_transaction_archive
        has_tx_happened == disputed_tx \in arch.history
        is_tx_not_being_disputed == disputed_tx \notin arch.disputes
        marked == [a EXCEPT !.account_transaction_archive.disputes = @ \cup {disputed_tx}]
    IN  IF has_tx_happened /\ is_tx_not_being_disputed
        THEN IF ~MapHas(arch.details, disputed_tx)
             THEN Ret(a, TransactionDetailDoesNotExist)
             ELSE LET disputed_tx_amount == arch.details[disputed_tx][1]
                  IN  Ret([marked EXCEPT
                              !.account_details.available_funds = @ - disputed_tx_amount,
                              !.account_details.held_funds = @ + disputed_tx_amount],
                          Ok)
        ELSE Ret(marked, Ok)

handle_dispute(a, tx) ==
    LET disputed_tx == tx.tx
        arch == a.account_transaction_archive
        has_tx_happened == disputed_tx \in arch.history
        is_tx_not_being_disputed == disputed_tx \notin arch.disputes
    IN  IF has_tx_happened /\ is_tx_not_being_disputed
        THEN IF ~MapHas(arch.details, disputed_tx)
             THEN Ret(a, TransactionDetailDoesNotExist)
             ELSE LET disputed_tx_amount == arch.details[disputed_tx][1]
                  IN  Ret([account_details |->
                              [a.account_details EXCEPT
                                  !.available_funds = @ - disputed_tx_amount,
                                  !.held_funds = @ + disputed_tx_amount],
                           account_transaction_archive |->
                              [arch EXCEPT !.disputes = @ \cup {disputed_tx}]],
                          Ok)
        ELSE Ret(a, Ok)

\* handle_resolve leaving the ID in the disputes set
handle_resolve_keeps_dispute(a, tx) ==
    LET disputed_tx == tx.tx
        arch == a.account_transaction_archive
    IN  IF disputed_tx \in arch.history /\ disputed_tx \in arch.disputes
        THEN IF ~MapHas(arch.details, disputed_tx)
             THEN Ret(a, TransactionDetailDoesNotExist)
             ELSE LET disputed_tx_amount == arch.details[disputed_tx][1]
                  IN  Ret([account_details |->
                              [a.account_details EXCEPT
                                  !.held_funds = @ - disputed_tx_amount,
                                  !.available_funds = @ + disputed_tx_amount],
                           account_transaction_archive |-> arch],
                          Ok)
        ELSE Ret(a, Ok)

\* handle_resolve without the test that the ID is under dispute
handle_resolve_undisputed(a, tx) ==
    LET disputed_tx == tx.tx
        arch == a.account_transaction_archive
    IN  IF disputed_tx \in arch.history
        THEN IF ~MapHas(arch.details, disputed_tx)
             THEN Ret(a, TransactionDetailDoesNotExist)
             ELSE LET disputed_tx_amount == arch.details[disputed_tx][1]
                  IN  Ret([account_details |->
                              [a.account_details EXCEPT
                                  !.held_funds = @ - disputed_tx_amount,
                                  !.available_funds = @ + disputed_tx_amount],
                           account_transaction_archive |->
                              [arch EXCEPT !.disputes = @ \ {disputed_tx}]],
                          Ok)
        ELSE Ret(a, Ok)

\* handle_resolve that unlocks the account when the dispute ends
handle_resolve_unlocks(a, tx) ==
    LET disputed_tx == tx.tx
        arch == a.account_transaction_archive
    IN  IF disputed_tx \in arch.history /\ disputed_tx \in arch.disputes
        THEN IF ~MapHas(arch.details, disputed_tx)
             THEN Ret(a, TransactionDetailDoesNotExist)
             ELSE LET disputed_tx_amount == arch.details[disputed_tx][1]
                  IN  Ret([account_details |->
                              [a.account_details EXCEPT
                                  !.held_funds = @ - disputed_tx_amount,
                                  !.available_funds = @ + disputed_tx_amount,
                                  !.is_account_locked = FALSE],
                           account_transaction_archive |->
                              [arch EXCEPT !.disputes = @ \ {disputed_tx}]],
                          Ok)
        ELSE Ret(a, Ok)

\* handle_resolve that ignores a resolve whose detail record is missing
handle_resolve_skips_missing(a, tx) ==
    LET disputed_tx == tx.tx
        arch == a.account_transaction_archive
    IN  IF disputed_tx \in arch.history /\ disputed_tx \in arch.disputes
           /\ MapHas(arch.details, disputed_tx)
        THEN LET disputed_tx_amount == arch.details[disputed_tx][1]
             IN  Ret([account_details |->
                         [a.account_details EXCEPT
                             !.held_funds = @ - disputed_tx_amount,
                             !.available_funds = @ + disputed_tx_amount],
                      account_transaction_archive |->
                         [arch EXCEPT !.disputes = @ \ {disputed_tx}]],
                     Ok)
        ELSE Ret(a, Ok)

\* handle_resolve that closes the ID for good by taking it out of history
handle_resolve_forgets(a, tx) ==
    LET disputed_tx == tx.tx
        arch == a.account_transaction_archive
    IN  IF disputed_tx \in arch.history /\ disputed_tx \in arch.disputes
        THEN IF ~MapHas(arch.details, disputed_tx)
             THEN Ret(a, TransactionDetailDoesNotExist)
             ELSE LET disputed_tx_amount == arch.details[disputed_tx][1]
                  IN  Ret([account_details |->
                              [a.account_details EXCEPT
                                  !.held_funds = @ - disputed_tx_amount,
                                  !.available_funds = @ + disputed_tx_amount],
                           account_transaction_archive |->
                              [arch EXCEPT !.disputes = @ \ {disputed_tx},
                                           !.history = @ \ {disputed_tx}]],
                          Ok)
        ELSE Ret(a, Ok)

handle_resolve(a, tx) ==
    LET disputed_tx == tx.tx
        arch == a.account_transaction_archive
        has_tx_happened == disputed_tx \in arch.history
        is_tx_being_disputed == disputed_tx \in arch.disputes
    IN  IF has_tx_happened /\ is_tx_being_disputed
        THEN IF ~MapHas(arch.details, disputed_tx)
             THEN Ret(a, TransactionDetailDoesNotExist)
             ELSE LET disputed_tx_amount == arch.details[disputed_tx][1]
                  IN  Ret([account_details |->
                              [a.account_details EXCEPT
                                  !.held_funds = @ - disputed_tx_amount,
                                  !.available_funds = @ + disputed_tx_amount],
                           account_transaction_archive |->
                              [arch EXCEPT !.disputes = @ \ {disputed_tx}]],
                          Ok)
        ELSE Ret(a, Ok)

\* handle_chargeback taking the amount from held funds only
handle_chargeback_keeps_total(a, tx) ==
    LET disputed_tx == tx.tx
        arch == a.account_transaction_archive
    IN  IF disputed_tx \in arch.history /\ disputed_tx \in arch.disputes
        THEN LET locked == [a EXCEPT !.account_details.is_account_locked = TRUE]
             IN  IF ~MapHas(arch.details, disputed_tx)
                 THEN Ret(locked, TransactionDetailDoesNotExist)
                 ELSE LET disputed_tx_amount == arch.details[disputed_tx][1]
                      IN  Ret([account_details |->
                                  [locked.account_details EXCEPT
                                      !.held_funds = @ - disputed_tx_amount],
                               account_transaction_archive |->
                                  [arch EXCEPT !.disputes = @ \ {disputed_tx}]],
                              Ok)
        ELSE Ret(a, Ok)

\* handle_chargeback that does not lock the account
handle_chargeback_no_lock(a, tx) ==
    LET disputed_tx == tx.tx
        arch == a.account_transaction_archive
    IN  IF disputed_tx \in arch.history /\ disputed_tx \in arch.disputes
        THEN IF ~MapHas(arch.details, disputed_tx)
             THEN Ret(a, TransactionDetailDoesNotExist)
             ELSE LET disputed_tx_amount == arch.details[disputed_tx][1]
                  IN  Ret([account_details |->
                              [a.account_details EXCEPT
                                  !.held_funds = @ - disputed_tx_amount,
                                  !.total_funds = @ - disputed_tx_amount],
                           account_transaction_archive |->
                              [arch EXCEPT !.disputes = @ \ {disputed_tx}]],
                          Ok)
        ELSE Ret(a, Ok)

\* handle_chargeback that also takes the reversed transaction out of history
handle_chargeback_forgets(a, tx) ==
    LET disputed_tx == tx.tx
        arch == a.account_transaction_archive
    IN  IF disputed_tx \in arch.history /\ disputed_tx \in arch.disputes
        THEN LET locked == [a EXCEPT !.account_details.is_account_locked = TRUE]
             IN  IF ~MapHas(arch.details, disputed_tx)
                 THEN Ret(locked, TransactionDetailDoesNotExist)
                 ELSE LET disputed_tx_amount == arch.details[disputed_tx][1]
                      IN  Ret([account_details |->
                                  [locked.account_details EXCEPT
                                      !.held_funds = @ - disputed_tx_amount,
                                      !.total_funds = @ - disputed_tx_amount],
                               account_transaction_archive |->
                                  [arch EXCEPT !.disputes = @ \ {disputed_tx},
                                               !.history = @ \ {disputed_tx}]],
                              Ok)
        ELSE Ret(a, Ok)

\* handle_chargeback that removes the amount the chargeback carries
handle_chargeback_tx_amount(a, tx) ==
    LET disputed_tx == tx.tx
        arch == a.account_transaction_archive
        has_tx_happened == disputed_tx \in arch.history
        is_tx_being_disputed == disputed_tx \in arch.disputes
    IN  IF has_tx_happened /\ is_tx_being_disputed
        THEN LET locked == [a EXCEPT !.account_details.is_account_locked = TRUE]
             IN  IF ~MapHas(arch.details, disputed_tx)
                 THEN Ret(locked, TransactionDetailDoesNotExist)
                 ELSE Ret([account_details |->
                              [locked.account_details EXCEPT
                                  !.held_funds = @ - tx.amount,
                                  !.total_funds = @ - tx.amount],
                           account_transaction_archive |->
                              [arch EXCEPT !.disputes = @ \ {disputed_tx}]],
                          Ok)
        ELSE Ret(a, Ok)

handle_chargeback(a, tx) ==
    LET disputed_tx == tx.tx
        arch == a.account_transaction_archive
        has_tx_happened == disputed_tx \in arch.history
        is_tx_being_disputed == disputed_tx \in arch.disputes
    IN  IF has_tx_happened /\ is_tx_being_disputed
        THEN LET locked == [a EXCEPT !.account_details.is_account_locked = TRUE]
             IN  IF ~MapHas(arch.details, disputed_tx)
                 \* the lock is set before the `?` returns the error
                 THEN Ret(locked, TransactionDetailDoesNotExist)
                 ELSE LET disputed_tx_amount == arch.details[disputed_tx][1]
                      IN  Ret([account_details |->
                                  [locked.account_details EXCEPT
                                      !.held_funds = @ - disputed_tx_amount,
                                      !.total_funds = @ - disputed_tx_amount],
                               account_transaction_archive |->
                                  [arch EXCEPT !.disputes = @ \ {disputed_tx}]],
                              Ok)
        ELSE Ret(a, Ok)

\* ------------------------------------- PaymentsEngine::process_transaction
\* The router does not call the ClientAccount handlers: each arm of its
\* match repeats the arithmetic inline.  The arms run only under the
\* duplicate-ID guard of process_transaction below.

\* TransactionType::Deposit arm
process_deposit(a, tx) ==
    Ret([account_details |->
            [a.account_details EXCEPT
                !.available_funds = @ + tx.amount,
                !.total_funds = @ + tx.amount],
         account_transaction_archive |->
            [a.account_transaction_archive EXCEPT
                !.details = MapInsert(@, tx.tx, <<tx.amount, tx.tx_type>>),
                !.history = @ \cup {tx.tx}]],
        Ok)

\* Withdrawal arm that refuses a withdrawal of the whole available amount
process_withdrawal_strict(a, tx) ==
    IF a.account_details.available_funds > tx.amount
    THEN Ret([account_details |->
                [a.account_details EXCEPT
                    !.available_funds = @ - tx.amount,
                    !.total_funds = @ - tx.amount],
              account_transaction_archive |->
                [a.account_transaction_archive EXCEPT
                    !.details = MapInsert(@, tx.tx, <<tx.amount, tx.tx_type>>),
                    !.history = @ \cup {tx.tx}]],
             Ok)
    ELSE Ret(a, NotEnoughAvailableFunds)

\* Withdrawal arm that records the ID of a withdrawal it refuses
process_withdrawal_records_failed(a, tx) ==
    IF a.account_details.available_funds >= tx.amount
    THEN Ret([account_details |->
                [a.account_details EXCEPT
                    !.available_funds = @ - tx.amount,
                    !.total_funds = @ - tx.amount],
              account_transaction_archive |->
                [a.account_transaction_archive EXCEPT
                    !.details = MapInsert(@, tx.tx, <<tx.amount, tx.tx_type>>),
                    !.history = @ \cup {tx.tx}]],
             Ok)
    ELSE Ret([a EXCEPT !.account_transaction_archive.history = @ \cup {tx.tx}],
             NotEnoughAvailableFunds)

\* TransactionType::Withdrawal arm: the error is returned to the caller
process_withdrawal(a, tx) ==
    IF a.account_details.available_funds >= tx.amount
    THEN Ret([account_details |->
                [a.account_details EXCEPT
                    !.available_funds = @ - tx.amount,
                    !.total_funds = @ - tx.amount],
              account_transaction_archive |->
                [a.account_transaction_archive EXCEPT
                    !.details = MapInsert(@, tx.tx, <<tx.amount, tx.tx_type>>),
                    !.history = @ \cup {tx.tx}]],
             Ok)
    ELSE Ret(a, NotEnoughAvailableFunds)

\* TransactionType::Dispute arm
process_dispute(a, tx) ==
    LET disputed_tx == tx.tx
        arch == a.account_transaction_archive
    IN  IF disputed_tx \in arch.history /\ disputed_tx \notin arch.disputes
        THEN IF ~MapHas(arch.details, disputed_tx)
             THEN Ret(a, TransactionDetailDoesNotExist)
             ELSE LET disputed_tx_amount == arch.details[disputed_tx][1]
                  IN  Ret([account_details |->
                              [a.account_details EXCEPT
                                  !.available_funds = @ - disputed_tx_amount,
                                  !.held_funds = @ + disputed_tx_amount],
                           account_transaction_archive |->
                              [arch EXCEPT !.disputes = @ \cup {disputed_tx}]],
                          Ok)
        ELSE Ret(a, Ok)

\* TransactionType::Resolve arm
process_resolve(a, tx) ==
    LET disputed_tx == tx.tx
        arch == a.account_transaction_archive
    IN  IF disputed_tx \in arch.history /\ disputed_tx \in arch.disputes
        THEN IF ~MapHas(arch.details, disputed_tx)
             THEN Ret(a, TransactionDetailDoesNotExist)
             ELSE LET disputed_tx_amount == arch.details[disputed_tx][1]
                  IN  Ret([account_details |->
                              [a.account_details EXCEPT
                                  !.held_funds = @ - disputed_tx_amount,
                                  !.available_funds = @ + disputed_tx_amount],
                           account_transaction_archive |->
                              [arch EXCEPT !.disputes = @ \ {disputed_tx}]],
                          Ok)
        ELSE Ret(a, Ok)

\* TransactionType::Chargeback arm
process_chargeback(a, tx) ==
    LET disputed_tx == tx.tx
        arch == a.account_transaction_archive
    IN  IF disputed_tx \in arch.history /\ disputed_tx \in arch.disputes
        THEN LET locked == [a EXCEPT !.account_details.is_account_locked = TRUE]
             IN  IF ~MapHas(arch.details, disputed_tx)
                 THEN Ret(locked, TransactionDetailDoesNotExist)
                 ELSE LET disputed_tx_amount == arch.details[disputed_tx][1]
                      IN  Ret([account_details |->
                                  [locked.account_details EXCEPT
                                      !.held_funds = @ - disputed_tx_amount,
                                      !.total_funds = @ - disputed_tx_amount],
                               account_transaction_archive |->
                                  [arch EXCEPT !.disputes = @ \ {disputed_tx}]],
                              Ok)
        ELSE Ret(a, Ok)

\* client_account_lookup.entry(tx.client).or_default()
entry_or_default(lookup, c) ==
    IF MapHas(lookup, c) THEN lookup ELSE MapInsert(lookup, c, DefaultClientAccount)

\* the match on tx.tx_type
dispatch(a, tx) ==
    CASE tx.tx_type = "Deposit" -> process_deposit(a, tx)
      [] tx.tx_type = "Withdrawal" -> process_withdrawal(a, tx)
      [] tx.tx_type = "Dispute" -> process_dispute(a, tx)
      [] tx.tx_type = "Resolve" -> process_resolve(a, tx)
      [] tx.tx_type = "Chargeback" -> process_chargeback(a, tx)

\* the duplicate-ID guard left out
is_new_transaction_always(a, tx) == TRUE

\* a duplicate-ID guard for deposits and withdrawals only
is_new_transaction_money_only(a, tx) ==
    \/ tx.tx_type \notin {"Deposit", "Withdrawal"}
    \/ tx.tx \notin a.account_transaction_archive.history

\* the duplicate-ID guard: a transaction whose ID is in the selected
\* account's history is dropped, whatever its kind
is_new_transaction(a, tx) == tx.tx \notin a.account_transaction_archive.history

\* process_transaction that puts the lookup back when the transaction fails
process_transaction_undoes_failed(lookup, tx) ==
    LET created == entry_or_default(lookup, tx.client)
        selected_account == created[tx.client]
    IN  IF is_new_transaction(selected_account, tx)
        THEN LET r == dispatch(selected_account, tx)
             IN  IF r.res = Ok
                 THEN [lookup |-> [created EXCEPT ![tx.client] = r.acct], res |-> r.res]
                 ELSE [lookup |-> lookup, res |-> r.res]
        ELSE [lookup |-> created, res |-> Ok]

\* process_transaction whose duplicate-ID guard looks into every account
process_transaction_global_ids(lookup, tx) ==
    LET created == entry_or_default(lookup, tx.client)
        selected_account == created[tx.client]
    IN  IF \A c \in DOMAIN created : is_new_transaction(created[c], tx)
        THEN LET r == dispatch(selected_account, tx)
             IN  [lookup |-> [created EXCEPT ![tx.client] = r.acct], res |-> r.res]
        ELSE [lookup |-> created, res |-> Ok]

process_transaction(lookup, tx) ==
    LET created == entry_or_default(lookup, tx.client)
        selected_account == created[tx.client]
    IN  IF is_new_transaction(selected_account, tx)
        THEN LET r == dispatch(selected_account, tx)
             IN  [lookup |-> [created EXCEPT ![tx.client] = r.acct], res |-> r.res]
        ELSE [lookup |-> created, res |-> Ok]

\* ------------------------------------------------------------ main.rs
\* main.rs carries its own PaymentsEngine.  Its process_transaction has the
\* same guard and the same Deposit, Withdrawal, Dispute and Resolve arms,
\* statement for statement, as payments_engine.rs (process_deposit ...
\* process_resolve above); its Chargeback arm differs: it never sets
\* is_account_locked.

\* TransactionType::Chargeback arm of main.rs
main_process_chargeback(a, tx) ==
    LET disputed_tx == tx.tx
        arch == a.account_transaction_archive
    IN  IF disputed_tx \in arch.history /\ disputed_tx \in arch.disputes
        THEN IF ~MapHas(arch.details, disputed_tx)
             THEN Ret(a, TransactionDetailDoesNotExist)
             ELSE LET disputed_tx_amount == arch.details[disputed_tx][1]
                  IN  Ret([account_details |->
                              [a.account_details EXCEPT
                                  !.held_funds = @ - disputed_tx_amount,
                                  !.total_funds = @ - disputed_tx_amount],
                           account_transaction_archive |->
                              [arch EXCEPT !.disputes = @ \ {disputed_tx}]],
                          Ok)
        ELSE Ret(a, Ok)

\* the match on tx.tx_type of main.rs
main_dispatch(a, tx) ==
    CASE tx.tx_type = "Deposit" -> process_deposit(a, tx)
      [] tx.tx_type = "Withdrawal" -> process_withdrawal(a, tx)
      [] tx.tx_type = "Dispute" -> process_dispute(a, tx)
      [] tx.tx_type = "Resolve" -> process_resolve(a, tx)
      [] tx.tx_type = "Chargeback" -> main_process_chargeback(a, tx)

\* PaymentsEngine::process_transaction of main.rs
main_process_transaction(lookup, tx) ==
    LET created == entry_or_default(lookup, tx.client)
        selected_account == created[tx.client]
    IN  IF is_new_transaction(selected_account, tx)
        THEN LET r == main_dispatch(selected_account, tx)
             IN  [lookup |-> [created EXCEPT ![tx.client] = r.acct], res |-> r.res]
        ELSE [lookup |-> created, res |-> Ok]

\* where main is: in its loop over the records, past the loop ("CSV file
\* processed."), returned with the error of a transaction, or exited on a
\* record that does not deserialize
InLoop == "loop"
CsvProcessed == "processed"
Failed == "failed"
Exited == "exited"

\* a loop body that goes on to the next record whatever the result
main_loop_body_goes_on(lookup, tx) ==
    LET r == main_process_transaction(lookup, tx)
    IN  [lookup |-> r.lookup, res |-> r.res, pc |-> InLoop]

\* one pass of main's loop body on a record that deserializes:
\* payments_engine.process_transaction(curr_transaction)?
main_loop_body(lookup, tx) ==
    LET r == main_process_transaction(lookup, tx)
    IN  [lookup |-> r.lookup, res |-> r.res,
         pc |-> IF r.res = Ok THEN InLoop ELSE Failed]

\* ------------------------------------------------------------------ state
\* harness    who drives the run: "account" calls the handlers of one
\*            standalone ClientAccount (as src/src/account/tests do),
\*            "engine" calls process_transaction on one PaymentsEngine
\*            (as src/src/payments_engine/tests.rs does), "main" is the
\*            binary: main's loop over the records of the CSV file
\* pc         where main is (read in the "main" harness only)
\* acct       the standalone ClientAccount
\* client_account_lookup   the engine's map from client ID to ClientAccount
\* call       the call that has just returned (its function and its
\*            Transaction argument), NoCall once the caller has taken the
\*            result
\* result     what that call returned
\* before     acct and client_account_lookup as they were when that call
\*            was made
VARIABLES harness, acct, client_account_lookup, call, result, before, pc

vars == <<harness, acct, client_account_lookup, call, result, before, pc>>

NoCall == [fn |-> "none", tx |-> MkTx("Deposit", 1, 1, 0)]

NoBefore == [acct |-> DefaultClientAccount, lookup |-> EmptyLookup]

Init ==
    /\ harness \in {"account", "engine", "main"}
    /\ acct = DefaultClientAccount
    /\ client_account_lookup = EmptyLookup
    /\ call = NoCall
    /\ result = "none"
    /\ before = NoBefore
    /\ pc = InLoop

\* the balances stay within -MaxFunds..MaxFunds (bounds the state space: a
\* handler may be called any number of times with the same ID)
\* The fields of ClientAccount, ClientAccountDetails and
\* ClientTransactionArchive are pub: a caller can hand the handlers an
\* account it has filled in itself, as sample_account_with_balance does.
\* SeededAccounts are such accounts: any balances with total = available +
\* held, any lock flag, any history and disputes, and a detail record for
\* any of the IDs or none.
DetailRecords == Amounts \X {"Deposit", "Withdrawal"}

SeededDetails ==
    UNION {[ids -> DetailRecords] : ids \in SUBSET TxIds}

SeededAccounts ==
    {[account_details |->
         [available_funds |-> av, held_funds |-> he, total_funds |-> av + he,
          is_account_locked |-> lo],
      account_transaction_archive |->
         [history |-> hi, details |-> de, disputes |-> di]] :
       av \in Amounts, he \in Amounts, lo \in BOOLEAN,
       hi \in SUBSET TxIds, de \in SeededDetails, di \in SUBSET TxIds}

\* a test that builds its account field by field and then calls one handler
InitSeeded ==
    /\ harness = "account"
    /\ acct \in SeededAccounts
    /\ client_account_lookup = EmptyLookup
    /\ call = NoCall
    /\ result = "none"
    /\ before = NoBefore
    /\ pc = InLoop

InRange(a) ==
    /\ a.account_details.available_funds \in -MaxFunds..MaxFunds
    /\ a.account_details.held_funds \in -MaxFunds..MaxFunds
    /\ a.account_details.total_funds \in -MaxFunds..MaxFunds

\* acct.<fn>(tx) on the standalone account; r is what the handler computes
CallHandler(fn, r, tx) ==
    /\ harness = "account"
    /\ call = NoCall
    /\ InRange(r.acct)
    /\ before' = [acct |-> acct, lookup |-> client_account_lookup]
    /\ acct' = r.acct
    /\ result' = r.res
    /\ call' = [fn |-> fn, tx |-> tx]
    /\ UNCHANGED <<harness, client_account_lookup, pc>>

\* the client of a transaction handed to the standalone account; the
\* handlers read it only to word the error and the warning
TestClient == 1

HandleDeposit ==
    \E t \in TxIds, a \in Amounts :
        LET tx == MkTx("Deposit", TestClient, t, a)
        IN  CallHandler("handle_deposit", handle_deposit(acct, tx), tx)

HandleWithdrawal ==
    \E t \in TxIds, a \in Amounts :
        LET tx == MkTx("Withdrawal", TestClient, t, a)
        IN  CallHandler("handle_withdrawal", handle_withdrawal(acct, tx), tx)

HandleDispute ==
    \E t \in TxIds, a \in Amounts :
        LET tx == MkTx("Dispute", TestClient, t, a)
        IN  CallHandler("handle_dispute", handle_dispute(acct, tx), tx)

HandleResolve ==
    \E t \in TxIds, a \in Amounts :
        LET tx == MkTx("Resolve", TestClient, t, a)
        IN  CallHandler("handle_resolve", handle_resolve(acct, tx), tx)

HandleChargeback ==
    \E t \in TxIds, a \in Amounts :
        LET tx == MkTx("Chargeback", TestClient, t, a)
        IN  CallHandler("handle_chargeback", handle_chargeback(acct, tx), tx)

\* engine.process_transaction(tx)
ProcessTransaction ==
    \E tx \in Transaction :
        LET r == process_transaction(client_account_lookup, tx)
        IN  /\ harness = "engine"
            /\ call = NoCall
            /\ before' = [acct |-> acct, lookup |-> client_account_lookup]
            /\ client_account_lookup' = r.lookup
            /\ result' = r.res
            /\ call' = [fn |-> "process_transaction", tx |-> tx]
            /\ UNCHANGED <<harness, acct, pc>>

\* the caller takes the Result of the call (unwrap, is_ok, is_err or a
\* binding; in main the `?`, whose outcome MainProcess has put in pc) and
\* goes on to its next statement; the account and the engine stay as the
\* call left them
Return ==
    /\ call # NoCall
    /\ call' = NoCall
    /\ result' = "none"
    /\ before' = NoBefore
    /\ UNCHANGED <<harness, acct, client_account_lookup, pc>>

\* main: the reader yields a record and the loop body runs on it
MainProcess ==
    \E tx \in Transaction :
        LET r == main_loop_body(client_account_lookup, tx)
        IN  /\ harness = "main"
            /\ pc = InLoop
            /\ call = NoCall
            /\ before' = [acct |-> acct, lookup |-> client_account_lookup]
            /\ client_account_lookup' = r.lookup
            /\ result' = r.res
            /\ pc' = r.pc
            /\ call' = [fn |-> "process_transaction", tx |-> tx]
            /\ UNCHANGED <<harness, acct>>

\* main: the next record does not deserialize; unwrap_or_else exits
MainBadRecord ==
    /\ harness = "main"
    /\ pc = InLoop
    /\ call = NoCall
    /\ pc' = Exited
    /\ UNCHANGED <<harness, acct, client_account_lookup, call, result, before>>

\* main: the reader is exhausted; "CSV file processed." and Ok(())
MainEndOfFile ==
    /\ harness = "main"
    /\ pc = InLoop
    /\ call = NoCall
    /\ pc' = CsvProcessed
    /\ UNCHANGED <<harness, acct, client_account_lookup, call, result, before>>

Next ==
    \/ HandleDeposit
    \/ HandleWithdrawal
    \/ HandleDispute
    \/ HandleResolve
    \/ HandleChargeback
    \/ ProcessTransaction
    \/ MainProcess
    \/ MainBadRecord
    \/ MainEndOfFile
    \/ Return

Spec == Init /\ [][Next]_vars

NextSeeded ==
    \/ HandleDeposit
    \/ HandleWithdrawal
    \/ HandleDispute
    \/ HandleResolve
    \/ HandleChargeback

SpecSeeded == InitSeeded /\ [][NextSeeded]_vars

\* ----------------------------------------------------- reading the state
Funds(a) == a.account_details
Archive(a) == a.account_transaction_archive

\* the account of client c in a lookup, as process_transaction would select
\* it: the default account when c has none yet
AccountOf(lookup, c) == IF MapHas(lookup, c) THEN lookup[c] ELSE DefaultClientAccount

\* the amount recorded in details for an ID
RecordedAmount(a, t) == Archive(a).details[t][1]

\* the last call was acct.<fn>(tx) on the standalone account
Handled(fn) == harness = "account" /\ call.fn = fn

\* the last call was engine.process_transaction(tx) with a tx of kind k
Processed(k) == harness = "engine" /\ call.fn = "process_transaction" /\ call.tx.tx_type = k

\* the account the last process_transaction selected, before and after
SelectedBefore == AccountOf(before.lookup, call.tx.client)
SelectedAfter == AccountOf(client_account_lookup, call.tx.client)

\* process_transaction left every other client's entry as it was
OthersUnchanged ==
    \A c \in Clients \ {call.tx.client} :
        /\ MapHas(client_account_lookup, c) <=> MapHas(before.lookup, c)
        /\ AccountOf(client_account_lookup, c) = AccountOf(before.lookup, c)

\* ------------------------------------------------------------------ claims

\* C1: in every account, after any sequence of deposits, withdrawals,
\* disputes, resolves and chargebacks (applied, ignored or failed),
\* total_funds = available_funds + held_funds.
TotalIsAvailablePlusHeld(a) ==
    Funds(a).total_funds = Funds(a).available_funds + Funds(a).held_funds

C1_TotalIsAvailablePlusHeld ==
    /\ TotalIsAvailablePlusHeld(acct)
    /\ \A c \in DOMAIN client_account_lookup :
           TotalIsAvailablePlusHeld(client_account_lookup[c])

\* a chargeback has just taken a positive amount out of held and total
C1_Witness ==
    /\ Handled("handle_chargeback")
    /\ call.tx.tx \in Archive(before.acct).disputes
    /\ Funds(acct).total_funds < Funds(before.acct).total_funds
    /\ Funds(acct).available_funds # 0

\* C2 (as claimed): processing the same deposit or withdrawal a second time
\* changes nothing and returns success.
C2_SecondCallIsOkNoOp ==
    (Processed("Deposit") \/ Processed("Withdrawal")) =>
        LET second == process_transaction(client_account_lookup, call.tx)
        IN  /\ second.lookup = client_account_lookup
            /\ second.res = Ok

\* C3 (as claimed): a withdrawal of more than the available funds, sent
\* through process_transaction, returns success and leaves the balances as
\* they were.
C3_InsufficientWithdrawalIsSuppressed ==
    (Processed("Withdrawal") /\ call.tx.amount > Funds(SelectedBefore).available_funds) =>
        /\ result = Ok
        /\ Funds(SelectedAfter) = Funds(SelectedBefore)

\* C4 (as claimed): on a fresh engine Deposit(c,t,a), Dispute(c,t),
\* Chargeback(c,t) leave c with available=0, held=a, total=a after the
\* dispute, and with available=0, held=0, total=0, locked and t not under
\* dispute after the chargeback.
AfterDeposit(c, t, a) ==
    process_transaction(EmptyLookup, MkTx("Deposit", c, t, a)).lookup

C4_DepositDisputeChargeback ==
    \A a \in Amounts :
        LET c == call.tx.client
            t == call.tx.tx
        IN  (Processed("Dispute") /\ before.lookup = AfterDeposit(c, t, a)) =>
                /\ Funds(SelectedAfter).available_funds = 0
                /\ Funds(SelectedAfter).held_funds = a
                /\ Funds(SelectedAfter).total_funds = a
                /\ \A x \in Amounts :
                       LET r == process_transaction(client_account_lookup,
                                                    MkTx("Chargeback", c, t, x))
                           after == AccountOf(r.lookup, c)
                       IN  /\ Funds(after).available_funds = 0
                           /\ Funds(after).held_funds = 0
                           /\ Funds(after).total_funds = 0
                           /\ Funds(after).is_account_locked
                           /\ t \notin Archive(after).disputes

\* C5: handle_dispute on an ID that is in history and not under dispute
\* takes the recorded amount of that ID from available, adds it to held,
\* leaves total as it was and puts the ID into the disputes set.
DisputeApplies ==
    /\ Handled("handle_dispute")
    /\ call.tx.tx \in Archive(before.acct).history
    /\ call.tx.tx \notin Archive(before.acct).disputes

C5_DisputeMovesRecordedAmount ==
    DisputeApplies =>
        LET amount == RecordedAmount(before.acct, call.tx.tx)
        IN  /\ Funds(acct).available_funds = Funds(before.acct).available_funds - amount
            /\ Funds(acct).held_funds = Funds(before.acct).held_funds + amount
            /\ Funds(acct).total_funds = Funds(before.acct).total_funds
            /\ Archive(acct).disputes = Archive(before.acct).disputes \cup {call.tx.tx}

\* a dispute has just moved a positive recorded amount, and the dispute
\* itself carried another amount
C5_Witness ==
    /\ DisputeApplies
    /\ RecordedAmount(before.acct, call.tx.tx) > 0
    /\ RecordedAmount(before.acct, call.tx.tx) # call.tx.amount
    /\ Funds(acct).held_funds > Funds(before.acct).held_funds

ChargebackApplies ==
    /\ Handled("handle_chargeback")
    /\ call.tx.tx \in Archive(before.acct).history
    /\ call.tx.tx \in Archive(before.acct).disputes

C7_ChargebackRemovesHeldAndLocks ==
    ChargebackApplies =>
        LET amount == RecordedAmount(before.acct, call.tx.tx)
        IN  /\ Funds(acct).is_account_locked
            /\ Funds(acct).held_funds = Funds(before.acct).held_funds - amount
            /\ Funds(acct).total_funds = Funds(before.acct).total_funds - amount
            /\ Funds(acct).available_funds = Funds(before.acct).available_funds
            /\ Archive(acct).disputes = Archive(before.acct).disputes \ {call.tx.tx}

\* a chargeback of a positive amount has just locked an unlocked account
C7_Witness ==
    /\ ChargebackApplies
    /\ ~Funds(before.acct).is_account_locked
    /\ RecordedAmount(before.acct, call.tx.tx) > 0
    /\ Funds(acct).is_account_locked

\* C8: a Resolve or a Chargeback on an ID that is not under dispute returns
\* Ok and changes nothing, through the handlers and through
\* process_transaction.
C8_ResolveChargebackUndisputedNoOp ==
    /\ ((Handled("handle_resolve") \/ Handled("handle_chargeback"))
            /\ call.tx.tx \notin Archive(before.acct).disputes) =>
           /\ result = Ok
           /\ acct = before.acct
    /\ ((Processed("Resolve") \/ Processed("Chargeback"))
            /\ call.tx.tx \notin Archive(SelectedBefore).disputes) =>
           /\ result = Ok
           /\ SelectedAfter = SelectedBefore
           /\ OthersUnchanged

\* a chargeback has just been ignored on a recorded ID that is not under
\* dispute, while the account holds funds for another dispute
C8_Witness ==
    /\ Handled("handle_chargeback")
    /\ call.tx.tx \in Archive(before.acct).history
    /\ call.tx.tx \notin Archive(before.acct).disputes
    /\ Funds(before.acct).held_funds > 0
    /\ ~Funds(before.acct).is_account_locked

\* C9: a Dispute whose ID was never recorded for the client, or is already
\* under dispute, returns Ok and changes nothing, through the handler and
\* through process_transaction.
DisputeFails(a) ==
    \/ call.tx.tx \notin Archive(a).history
    \/ call.tx.tx \in Archive(a).disputes

WithdrawalExceeds ==
    /\ Handled("handle_withdrawal")
    /\ call.tx.amount > Funds(before.acct).available_funds

C11_InsufficientWithdrawalFailsUnchanged ==
    WithdrawalExceeds =>
        /\ result = NotEnoughAvailableFunds
        /\ Funds(acct) = Funds(before.acct)
        /\ Archive(acct).history = Archive(before.acct).history
        /\ Archive(acct).details = Archive(before.acct).details

\* a withdrawal with a new ID has just been refused on an account that has
\* funds, but fewer than asked for
C11_Witness ==
    /\ WithdrawalExceeds
    /\ Funds(before.acct).available_funds > 0
    /\ call.tx.tx \notin Archive(before.acct).history
    /\ result = NotEnoughAvailableFunds

DetailsKept(b, a) ==
    \A t \in DOMAIN Archive(b).details :
        /\ MapHas(Archive(a).details, t)
        /\ Archive(a).details[t] = Archive(b).details[t]

C14_DetailsWrittenOnce ==
    (call # NoCall) =>
        /\ DetailsKept(before.acct, acct)
        /\ \A c \in DOMAIN before.lookup :
               DetailsKept(before.lookup[c], AccountOf(client_account_lookup, c))

\* C15 (as claimed): handle_withdrawal with an ID already in history returns
\* an error and applies nothing: balances, history and details stay as the
\* first withdrawal left them.
C15_DuplicateWithdrawalIsError ==
    (Handled("handle_withdrawal") /\ call.tx.tx \in Archive(before.acct).history) =>
        /\ result # Ok
        /\ acct = before.acct

\* C16: the history set of an account only grows: every ID in history
\* before a call is in history after it, whatever the call.
HistoryKept(b, a) == Archive(b).history \subseteq Archive(a).history

C16_HistoryOnlyGrows ==
    (call # NoCall) =>
        /\ HistoryKept(before.acct, acct)
        /\ \A c \in DOMAIN before.lookup :
               /\ MapHas(client_account_lookup, c)
               /\ HistoryKept(before.lookup[c], client_account_lookup[c])

\* a chargeback has just reversed a recorded transaction, and its ID is
\* still in history
C16_Witness ==
    /\ ChargebackApplies
    /\ RecordedAmount(before.acct, call.tx.tx) > 0
    /\ call.tx.tx \in Archive(acct).history
    /\ call.tx.tx \notin Archive(acct).disputes

\* C17: the locked flag is irreversible and is set only by a chargeback
\* that applied: a locked account is locked after every call, and an
\* unlocked account is locked after a call only if the call was a
\* chargeback on an ID under dispute that returned Ok.
LockKept(b, a) == Funds(b).is_account_locked => Funds(a).is_account_locked

LockSet(b, a) == ~Funds(b).is_account_locked /\ Funds(a).is_account_locked

C17_LockedIsIrreversible ==
    (call # NoCall) =>
        /\ LockKept(before.acct, acct)
        /\ LockSet(before.acct, acct) => (ChargebackApplies /\ result = Ok)
        /\ \A c \in Clients :
               /\ LockKept(AccountOf(before.lookup, c), AccountOf(client_account_lookup, c))
               /\ LockSet(AccountOf(before.lookup, c), AccountOf(client_account_lookup, c)) =>
                      /\ Processed("Chargeback")
                      /\ c = call.tx.client
                      /\ call.tx.tx \in Archive(SelectedBefore).disputes
                      /\ result = Ok

\* a resolve has just applied on a locked account, which is still locked
C17_Witness ==
    /\ Handled("handle_resolve")
    /\ call.tx.tx \in Archive(before.acct).disputes
    /\ RecordedAmount(before.acct, call.tx.tx) > 0
    /\ Funds(before.acct).is_account_locked
    /\ Funds(acct).is_account_locked
    /\ acct # before.acct

\* C18 (as claimed): after a chargeback that applied on an ID, a Dispute, a
\* Resolve or a Chargeback on that ID is a no-op: the ID does not re-enter
\* the disputes set and its amount is not moved again.
C18_ChargedBackIsTerminal ==
    ChargebackApplies =>
        \A x \in Amounts :
            LET c == call.tx.client
                t == call.tx.tx
                d == handle_dispute(acct, MkTx("Dispute", c, t, x))
                r == handle_resolve(acct, MkTx("Resolve", c, t, x))
                b == handle_chargeback(acct, MkTx("Chargeback", c, t, x))
            IN  /\ d.res = Ok /\ d.acct = acct
                /\ r.res = Ok /\ r.acct = acct
                /\ b.res = Ok /\ b.acct = acct

\* C19: the locked flag has no influence on a call: from the account that
\* differs from the one the call ran on only in locked, the same call gives
\* the same result and the same balances, history, details and disputes.
WithLocked(a, b) == [a EXCEPT !.account_details.is_account_locked = b]

HandlerResult(fn, a, tx) ==
    CASE fn = "handle_deposit" -> handle_deposit(a, tx)
      [] fn = "handle_withdrawal" -> handle_withdrawal(a, tx)
      [] fn = "handle_dispute" -> handle_dispute(a, tx)
      [] fn = "handle_resolve" -> handle_resolve(a, tx)
      [] fn = "handle_chargeback" -> handle_chargeback(a, tx)

SameButLocked(a1, a2) ==
    /\ Funds(a1).available_funds = Funds(a2).available_funds
    /\ Funds(a1).held_funds = Funds(a2).held_funds
    /\ Funds(a1).total_funds = Funds(a2).total_funds
    /\ Archive(a1) = Archive(a2)

C19_LockedHasNoInfluence ==
    /\ (harness = "account" /\ call # NoCall) =>
           LET flipped == WithLocked(before.acct, ~Funds(before.acct).is_account_locked)
               other == HandlerResult(call.fn, flipped, call.tx)
           IN  /\ other.res = result
               /\ SameButLocked(other.acct, acct)
    /\ (harness = "engine" /\ call # NoCall) =>
           LET c == call.tx.client
               flipped == [entry_or_default(before.lookup, c) EXCEPT
                              ![c] = WithLocked(@, ~Funds(@).is_account_locked)]
               other == process_transaction(flipped, call.tx)
           IN  /\ other.res = result
               /\ SameButLocked(other.lookup[c], SelectedAfter)

\* a withdrawal of a positive amount has just succeeded on a locked account
C19_Witness ==
    /\ Handled("handle_withdrawal")
    /\ Funds(before.acct).is_account_locked
    /\ call.tx.amount > 0
    /\ result = Ok
    /\ Funds(acct).available_funds < Funds(before.acct).available_funds

\* C20: process_transaction drops every transaction whose ID is already in
\* the selected account's history, whatever its kind: it returns Ok and the
\* engine is as before.
IsDuplicate ==
    /\ harness = "engine"
    /\ call.fn = "process_transaction"
    /\ call.tx.tx \in Archive(SelectedBefore).history

C20_DuplicateIdIsDropped ==
    IsDuplicate =>
        /\ result = Ok
        /\ client_account_lookup = before.lookup

\* a withdrawal that the account could not cover has just been dropped
\* because its ID is that of a recorded deposit
C20_Witness ==
    /\ IsDuplicate
    /\ call.tx.tx_type = "Withdrawal"
    /\ call.tx.amount > Funds(SelectedBefore).available_funds
    /\ Archive(SelectedBefore).details[call.tx.tx][2] = "Deposit"
    /\ result = Ok


\* C21: process_transaction on a client not yet in the lookup adds exactly
\* one account, for that client, which starts as the default account (zero
\* available, held and total, unlocked, empty history, details and
\* disputes) before the transaction is applied: after a deposit it holds
\* exactly that deposit, after a withdrawal of zero exactly that record, and
\* after a failed withdrawal or an ignored dispute, resolve or chargeback it
\* is the default account.  No call removes an account from the lookup.
RouterCalled == call.fn = "process_transaction"

FirstRecord(t, x, k) ==
    [account_details |->
        [available_funds |-> x, held_funds |-> 0, total_funds |-> x,
         is_account_locked |-> FALSE],
     account_transaction_archive |->
        [history |-> {t}, details |-> (t :> <<x, k>>), disputes |-> {}]]

C21_AccountCreatedOnFirstReference ==
    RouterCalled =>
        LET c == call.tx.client
            t == call.tx.tx
            x == call.tx.amount
            k == call.tx.tx_type
        IN  /\ DOMAIN client_account_lookup = (DOMAIN before.lookup) \cup {c}
            /\ ~MapHas(before.lookup, c) =>
                   CASE k = "Deposit" ->
                            /\ result = Ok
                            /\ client_account_lookup[c] = FirstRecord(t, x, k)
                     [] k = "Withdrawal" /\ x = 0 ->
                            /\ result = Ok
                            /\ client_account_lookup[c] = FirstRecord(t, 0, k)
                     [] k = "Withdrawal" /\ x > 0 ->
                            /\ result = NotEnoughAvailableFunds
                            /\ client_account_lookup[c] = DefaultClientAccount
                     [] OTHER ->
                            /\ result = Ok
                            /\ client_account_lookup[c] = DefaultClientAccount

\* the first transaction of a second client is a withdrawal that fails, and
\* the client has a default account all the same
C21_Witness ==
    /\ Processed("Withdrawal")
    /\ before.lookup # EmptyLookup
    /\ ~MapHas(before.lookup, call.tx.client)
    /\ result = NotEnoughAvailableFunds
    /\ MapHas(client_account_lookup, call.tx.client)
    /\ client_account_lookup[call.tx.client] = DefaultClientAccount

\* C22: process_transaction for client c changes only c's account: every
\* other client's entry is as before; and a transaction ID is first-seen
\* for c whenever it is not in c's own history, whatever the histories of
\* the other clients hold: a deposit with it is applied to c.
InAnotherHistory ==
    \E c \in (DOMAIN before.lookup) \ {call.tx.client} :
        call.tx.tx \in Archive(before.lookup[c]).history

C22_OnlyTheClientsAccountChanges ==
    RouterCalled =>
        /\ OthersUnchanged
        /\ (call.tx.tx_type = "Deposit"
            /\ call.tx.tx \notin Archive(SelectedBefore).history) =>
               /\ result = Ok
               /\ Funds(SelectedAfter).available_funds
                      = Funds(SelectedBefore).available_funds + call.tx.amount
               /\ Funds(SelectedAfter).total_funds
                      = Funds(SelectedBefore).total_funds + call.tx.amount
               /\ call.tx.tx \in Archive(SelectedAfter).history
               /\ RecordedAmount(SelectedAfter, call.tx.tx) = call.tx.amount

\* a deposit has just been applied to one client under an ID that another
\* client's history already holds
C22_Witness ==
    /\ Processed("Deposit")
    /\ InAnotherHistory
    /\ call.tx.amount > 0
    /\ call.tx.tx \notin Archive(SelectedBefore).history
    /\ call.tx.tx \in Archive(SelectedAfter).history
    /\ Funds(SelectedAfter).available_funds > Funds(SelectedBefore).available_funds


\* C23 (as claimed): a run of main continues past a withdrawal that the
\* account cannot cover: the withdrawal is skipped and main stays in its
\* loop, where every later record is processed.
C23_RunContinuesPastFailedWithdrawal ==
    (/\ harness = "main"
     /\ RouterCalled
     /\ call.tx.tx_type = "Withdrawal"
     /\ call.tx.tx \notin Archive(SelectedBefore).history
     /\ call.tx.amount > Funds(SelectedBefore).available_funds) =>
        /\ pc = InLoop
        /\ SelectedAfter = SelectedBefore
        /\ OthersUnchanged


\* C24 (as claimed): no account's available funds are ever negative, after
\* any sequence of deposits, withdrawals, disputes, resolves and
\* chargebacks with non-negative amounts.
C24_AvailableNeverNegative ==
    /\ Funds(acct).available_funds >= 0
    /\ \A c \in DOMAIN client_account_lookup :
           Funds(client_account_lookup[c]).available_funds >= 0

\* C25: history and details are written together: in every state reached
\* from an empty account through the handlers or process_transaction, the
\* IDs in history are exactly the keys of details, and no call returns
\* TransactionDetailDoesNotExist.
HistoryIsDetailKeys(a) == Archive(a).history = DOMAIN Archive(a).details

C25_HistoryAndDetailsTogether ==
    /\ HistoryIsDetailKeys(acct)
    /\ \A c \in DOMAIN client_account_lookup :
           HistoryIsDetailKeys(client_account_lookup[c])
    /\ result # TransactionDetailDoesNotExist

\* a dispute has just read the detail record of an ID of history, with two
\* IDs recorded
C25_Witness ==
    /\ DisputeApplies
    /\ RecordedAmount(before.acct, call.tx.tx) > 0
    /\ Archive(acct).history = TxIds
    /\ result = Ok

\* C26: for a transaction whose ID is not in the selected account's
\* history, process_transaction gives the result and the account that the
\* matching ClientAccount handler gives on that account.
HandlerFor(k) ==
    CASE k = "Deposit" -> "handle_deposit"
      [] k = "Withdrawal" -> "handle_withdrawal"
      [] k = "Dispute" -> "handle_dispute"
      [] k = "Resolve" -> "handle_resolve"
      [] k = "Chargeback" -> "handle_chargeback"

C29_ErrorAbortsTheRun ==
    [][/\ (harness = "main" /\ result' \notin {Ok, "none"}) => pc' = Failed
       /\ (harness = "main" /\ pc = Failed) =>
              /\ pc' = Failed
              /\ client_account_lookup' = client_account_lookup
              /\ call' = NoCall]_vars

\* main has returned with the error of a withdrawal that followed a deposit
\* it had applied
C29_Witness ==
    /\ harness = "main"
    /\ pc = Failed
    /\ call.tx.tx_type = "Withdrawal"
    /\ result = NotEnoughAvailableFunds
    /\ Funds(SelectedAfter).available_funds > 0


\* C27: on an account whose history holds an ID that has no detail record,
\* handle_dispute (ID not under dispute), handle_resolve and
\* handle_chargeback (ID under dispute) on that ID return
\* TransactionDetailDoesNotExist; the call is not ignored with Ok.
MissingDetail(a, t) ==
    /\ t \in Archive(a).history
    /\ ~MapHas(Archive(a).details, t)

C27_MissingDetailIsAnError ==
    /\ (/\ Handled("handle_dispute")
        /\ MissingDetail(before.acct, call.tx.tx)
        /\ call.tx.tx \notin Archive(before.acct).disputes) =>
           result = TransactionDetailDoesNotExist
    /\ (/\ Handled("handle_resolve")
        /\ MissingDetail(before.acct, call.tx.tx)
        /\ call.tx.tx \in Archive(before.acct).disputes) =>
           result = TransactionDetailDoesNotExist
    /\ (/\ Handled("handle_chargeback")
        /\ MissingDetail(before.acct, call.tx.tx)
        /\ call.tx.tx \in Archive(before.acct).disputes) =>
           result = TransactionDetailDoesNotExist

\* a resolve has just failed on a disputed ID of history that has no detail
\* record, on an account that holds funds
C27_Witness ==
    /\ Handled("handle_resolve")
    /\ MissingDetail(before.acct, call.tx.tx)
    /\ call.tx.tx \in Archive(before.acct).disputes
    /\ Funds(before.acct).held_funds > 0
    /\ result = TransactionDetailDoesNotExist

\* C28 (as claimed): a handler that returns an error leaves the account
\* exactly as it was: locked, balances, history, details and disputes.
C28_FailedCallChangesNothing ==
    (harness = "account" /\ call # NoCall /\ result # Ok) => acct = before.acct


\* C30: a resolved ID is back in the Applied state: in the account left by
\* a resolve that applied, handle_dispute on the same ID takes effect again
\* (the recorded amount moves from available to held, total stays, the ID
\* is under dispute), and a resolve after it gives the account left by the
\* first resolve, from where the cycle can start again.
ResolveApplies ==
    /\ Handled("handle_resolve")
    /\ call.tx.tx \in Archive(before.acct).history
    /\ call.tx.tx \in Archive(before.acct).disputes

C30_ResolvedCanBeDisputedAgain ==
    ResolveApplies =>
        \A x \in Amounts :
            LET t == call.tx.tx
                d == handle_dispute(acct, MkTx("Dispute", call.tx.client, t, x))
                r == handle_resolve(d.acct, MkTx("Resolve", call.tx.client, t, x))
            IN  /\ d.res = Ok
                /\ Funds(d.acct).available_funds
                       = Funds(acct).available_funds - RecordedAmount(acct, t)
                /\ Funds(d.acct).held_funds
                       = Funds(acct).held_funds + RecordedAmount(acct, t)
                /\ Funds(d.acct).total_funds = Funds(acct).total_funds
                /\ t \in Archive(d.acct).disputes
                /\ r.res = Ok
                /\ r.acct = acct

\* a resolve has just released a positive amount, and the ID is in history
\* and no longer under dispute
C30_Witness ==
    /\ ResolveApplies
    /\ RecordedAmount(before.acct, call.tx.tx) > 0
    /\ result = Ok
    /\ call.tx.tx \in Archive(acct).history
    /\ call.tx.tx \notin Archive(acct).disputes
    /\ Funds(acct).held_funds < Funds(before.acct).held_funds


\* C31: a withdrawal that process_transaction refused for insufficient
\* funds leaves its ID out of history, so a later withdrawal with the same
\* ID is not dropped as a duplicate: it is applied whenever the available
\* funds cover it, at once or after a deposit under another ID.
WithdrawalRefused ==
    /\ Processed("Withdrawal")
    /\ result = NotEnoughAvailableFunds

RetryApplied(lookup, c, t, x) ==
    LET r == process_transaction(lookup, MkTx("Withdrawal", c, t, x))
    IN  x <= Funds(lookup[c]).available_funds =>
            /\ r.res = Ok
            /\ Funds(r.lookup[c]).available_funds
                   = Funds(lookup[c]).available_funds - x
            /\ Funds(r.lookup[c]).total_funds = Funds(lookup[c]).total_funds - x
            /\ t \in Archive(r.lookup[c]).history
            /\ Archive(r.lookup[c]).details[t] = <<x, "Withdrawal">>

C31_RefusedWithdrawalIdStaysFree ==
    WithdrawalRefused =>
        LET c == call.tx.client
            t == call.tx.tx
        IN  /\ t \notin Archive(SelectedAfter).history
            /\ ~MapHas(Archive(SelectedAfter).details, t)
            /\ \A x \in Amounts :
                   /\ RetryApplied(client_account_lookup, c, t, x)
                   /\ \A t2 \in TxIds \ ({t} \cup Archive(SelectedAfter).history) :
                          \A y \in Amounts :
                              RetryApplied(
                                  process_transaction(client_account_lookup,
                                      MkTx("Deposit", c, t2, y)).lookup,
                                  c, t, x)

\* a withdrawal has just been refused on an account that holds less than
\* was asked but more than nothing: a smaller withdrawal with the same ID
\* is covered
C31_Witness ==
    /\ WithdrawalRefused
    /\ Funds(SelectedAfter).available_funds > 0
    /\ call.tx.tx \notin Archive(SelectedAfter).history
    /\ \E x \in Amounts \ {0} : x <= Funds(SelectedAfter).available_funds

\* C32: dispute, resolve and chargeback treat a recorded withdrawal as they
\* treat a recorded deposit: with the stored kind of the ID changed, the
\* handler gives the same result, balances, lock and disputes; a dispute of
\* a withdrawal of amount a takes a from available and adds a to held, and
\* its chargeback takes a from held and from total.
DisputeHandlers == {"handle_dispute", "handle_resolve", "handle_chargeback"}

OtherKind(k) == IF k = "Deposit" THEN "Withdrawal" ELSE "Deposit"

WithOtherKind(a, t) ==
    IF MapHas(Archive(a).details, t)
    THEN [a EXCEPT !.account_transaction_archive.details[t] =
                       <<@[1], OtherKind(@[2])>>]
    ELSE a

RecordedKind(a, t) == Archive(a).details[t][2]

C32_StoredKindIsNotConsulted ==
    /\ (harness = "account" /\ call.fn \in DisputeHandlers) =>
           LET other == HandlerResult(call.fn, WithOtherKind(before.acct, call.tx.tx), call.tx)
           IN  /\ other.res = result
               /\ Funds(other.acct) = Funds(acct)
               /\ Archive(other.acct).disputes = Archive(acct).disputes
    /\ (DisputeApplies /\ RecordedKind(before.acct, call.tx.tx) = "Withdrawal") =>
           /\ Funds(acct).available_funds = Funds(before.acct).available_funds
                                              - RecordedAmount(before.acct, call.tx.tx)
           /\ Funds(acct).held_funds = Funds(before.acct).held_funds
                                         + RecordedAmount(before.acct, call.tx.tx)
    /\ (ChargebackApplies /\ RecordedKind(before.acct, call.tx.tx) = "Withdrawal") =>
           /\ Funds(acct).held_funds = Funds(before.acct).held_funds
                                         - RecordedAmount(before.acct, call.tx.tx)
           /\ Funds(acct).total_funds = Funds(before.acct).total_funds
                                          - RecordedAmount(before.acct, call.tx.tx)

\* a dispute has just held the amount of a recorded withdrawal
C32_Witness ==
    /\ DisputeApplies
    /\ RecordedKind(before.acct, call.tx.tx) = "Withdrawal"
    /\ RecordedAmount(before.acct, call.tx.tx) > 0
    /\ Funds(acct).held_funds > Funds(before.acct).held_funds

\* C33: a Dispute, Resolve or Chargeback, applied or ignored, leaves history
\* and details as they were, in the handlers and in process_transaction.
DisputeKinds == {"Dispute", "Resolve", "Chargeback"}

C33_DisputesLeaveHistoryAndDetails ==
    /\ (harness = "account" /\ call.fn \in DisputeHandlers) =>
           /\ Archive(acct).history = Archive(before.acct).history
           /\ Archive(acct).details = Archive(before.acct).details
    /\ (RouterCalled /\ call.tx.tx_type \in DisputeKinds) =>
           /\ Archive(SelectedAfter).history = Archive(SelectedBefore).history
           /\ Archive(SelectedAfter).details = Archive(SelectedBefore).details
           /\ OthersUnchanged

\* a dispute has just applied on an account with two recorded IDs
C33_Witness ==
    /\ DisputeApplies
    /\ Archive(before.acct).history = TxIds
    /\ RecordedAmount(before.acct, call.tx.tx) > 0
    /\ acct # before.acct

\* C34: the amount a Dispute, Resolve or Chargeback carries is ignored: the
\* same call with any other amount gives the result and the account the
\* call gave; the amount moved is the recorded one.
WithAmount(tx, x) == [tx EXCEPT !.amount = x]

C34_CarriedAmountIsIgnored ==
    /\ (harness = "account" /\ call.fn \in DisputeHandlers) =>
           \A x \in Amounts :
               LET other == HandlerResult(call.fn, before.acct, WithAmount(call.tx, x))
               IN  /\ other.res = result
                   /\ other.acct = acct
    /\ (Processed("Dispute") \/ Processed("Resolve") \/ Processed("Chargeback")) =>
           \A x \in Amounts :
               LET other == process_transaction(before.lookup, WithAmount(call.tx, x))
               IN  /\ other.res = result
                   /\ other.lookup = client_account_lookup

\* a chargeback has just removed a recorded amount that is not the amount
\* it carried
C34_Witness ==
    /\ ChargebackApplies
    /\ RecordedAmount(before.acct, call.tx.tx) > 0
    /\ call.tx.amount # RecordedAmount(before.acct, call.tx.tx)
    /\ Funds(acct).total_funds
           = Funds(before.acct).total_funds - RecordedAmount(before.acct, call.tx.tx)

\* C35: in every reachable state of every account, the IDs under dispute
\* are IDs of history.
DisputesInHistory(a) == Archive(a).disputes \subseteq Archive(a).history

C35_DisputesAreOfHistory ==
    /\ DisputesInHistory(acct)
    /\ \A c \in DOMAIN client_account_lookup :
           DisputesInHistory(client_account_lookup[c])

\* a dispute of an unknown ID has just been ignored, while a recorded ID is
\* under dispute
C35_Witness ==
    /\ Handled("handle_dispute")
    /\ call.tx.tx \notin Archive(before.acct).history
    /\ Archive(before.acct).disputes # {}
    /\ call.tx.tx \notin Archive(acct).disputes


\* C36 (as claimed): in every reachable state of every account, held_funds
\* is the sum of the recorded amounts of the IDs under dispute; hence held
\* is zero when no dispute is active and never negative.
RECURSIVE SumRecorded(_, _)
SumRecorded(a, ids) ==
    IF ids = {}
    THEN 0
    ELSE LET t == CHOOSE i \in ids : TRUE
         IN  RecordedAmount(a, t) + SumRecorded(a, ids \ {t})

HeldIsDisputedSum(a) ==
    Funds(a).held_funds = SumRecorded(a, Archive(a).disputes)

C36_HeldIsSumOfDisputed ==
    /\ HeldIsDisputedSum(acct)
    /\ \A c \in DOMAIN client_account_lookup :
           HeldIsDisputedSum(client_account_lookup[c])


\* C37: in every state reached through process_transaction alone, every
\* account has held_funds zero, no ID under dispute and locked false: a
\* Dispute, Resolve or Chargeback sent through the router never takes
\* effect, because the guard drops it when its ID is in history and its arm
\* ignores it when its ID is not.
Untouched(a) ==
    /\ Funds(a).held_funds = 0
    /\ Archive(a).disputes = {}
    /\ ~Funds(a).is_account_locked

C37_RouterNeverHolds ==
    /\ \A c \in DOMAIN client_account_lookup : Untouched(client_account_lookup[c])
    /\ (RouterCalled /\ call.tx.tx_type \in DisputeKinds) =>
           /\ result = Ok
           /\ SelectedAfter = SelectedBefore

\* the router has just dropped the dispute of a recorded deposit of a
\* positive amount
C37_Witness ==
    /\ Processed("Dispute")
    /\ call.tx.tx \in Archive(SelectedBefore).history
    /\ RecordedAmount(SelectedBefore, call.tx.tx) > 0
    /\ Funds(SelectedAfter).available_funds > 0
    /\ Untouched(SelectedAfter)

\* C38: transactions of different clients commute: with tx1 the
\* transaction just processed and tx2 any transaction of another client,
\* tx1 then tx2 and tx2 then tx1 give each transaction the same result and
\* leave the same engine.
C38_DifferentClientsCommute ==
    Processed(call.tx.tx_type) =>
        \A tx2 \in Transaction :
            tx2.client # call.tx.client =>
                LET second == process_transaction(client_account_lookup, tx2)
                    first2 == process_transaction(before.lookup, tx2)
                    then1 == process_transaction(first2.lookup, call.tx)
                IN  /\ second.lookup = then1.lookup
                    /\ second.res = first2.res
                    /\ result = then1.res

\* a deposit has just been applied for one client while another client,
\* whose history holds the same ID, has an account with funds
C38_Witness ==
    /\ Processed("Deposit")
    /\ call.tx.amount > 0
    /\ InAnotherHistory
    /\ call.tx.tx \in Archive(SelectedAfter).history
    /\ \E c \in (DOMAIN before.lookup) \ {call.tx.client} :
           Funds(before.lookup[c]).available_funds > 0

\* C39: a deposit or a withdrawal, applied or refused, leaves held_funds,
\* the lock and the disputes as they were, in the handlers and in
\* process_transaction.
HoldKept(b, a) ==
    /\ Funds(a).held_funds = Funds(b).held_funds
    /\ Funds(a).is_account_locked = Funds(b).is_account_locked
    /\ Archive(a).disputes = Archive(b).disputes

C39_MoneyMovesLeaveTheHold ==
    /\ (Handled("handle_deposit") \/ Handled("handle_withdrawal")) =>
           HoldKept(before.acct, acct)
    /\ (RouterCalled /\ call.tx.tx_type \in {"Deposit", "Withdrawal"}) =>
           HoldKept(SelectedBefore, SelectedAfter)

\* a deposit has just been applied on a locked account that holds funds
\* for a dispute
C39_Witness ==
    /\ Handled("handle_deposit")
    /\ call.tx.amount > 0
    /\ Funds(before.acct).is_account_locked
    /\ Funds(before.acct).held_funds > 0
    /\ Archive(before.acct).disputes # {}
    /\ Funds(acct).available_funds > Funds(before.acct).available_funds

====
